---------------------------- MODULE Spec2Model ----------------------------
(***************************************************************************)
(* A model of dorusu-js: the rpc-protocol message codec of lib/codec.js    *)
(* (encodeMessage, decodeMessage, EncodingStream, DecodingStream) and the  *)
(* RpcApp route registry exercised by test/app.js.                         *)
(*                                                                         *)
(* A Buffer is a sequence of bytes (naturals below 256); JavaScript's      *)
(* 0-based offsets are kept in the operators' parameters and turned into   *)
(* 1-based indices inside them.                                            *)
(***************************************************************************)
EXTENDS Integers, Sequences, FiniteSets, TLC

VARIABLES
  \* one-shot codec call: argument, configured callback, operation, outcome
  fIn, fMode, fOp, fRes,
  \* DecodingStream: opts.unmarshal, the peer's flag byte, the payloads the
  \* peer framed, the bytes not yet written, this._buffer, the objects
  \* pushed, the 'error' emitted, the exception that left a handler, and
  \* what the last handler did
  dUnmarshal, dFlag, dMsgs, dWire, dBuffer, dOut, dError, dThrown, dState,
  \* history: the buffer and the number of pushed objects when _flush was
  \* entered, and the number of pushed objects when a callback threw
  dEnd, dFailOut,
  \* EncodingStream: this._marshal, the messages the caller writes, those
  \* not yet written, the bytes pushed, whether push(null) ended the
  \* output, the 'error' emitted, what the last handler did, and (history)
  \* the marshal callback each written message met
  eMarshal, eMsgs, eIn, eOut, eEnded, eError, eState, eUsed,
  \* RpcApp: the names of the services added, the registry entries in
  \* insertion order, the last call and whether it threw, and (history) the
  \* services whose addition succeeded, the routes whose registration
  \* succeeded, and how many services the constructor was given
  aServices, aEntries, aLast, aAdded, aRegistered, aPreloaded,
  \* interval call: the string argument, the number argument, the operation
  \* and its outcome
  iStr, iMicros, iOp, iRes,
  \* metadata call: the key and value arguments, the operation and the
  \* returned pair
  mKey, mValue, mOp, mRes

frameVars == <<fIn, fMode, fOp, fRes>>
decVars ==
  <<dUnmarshal, dFlag, dMsgs, dWire, dBuffer, dOut, dError, dThrown, dState,
    dEnd, dFailOut>>
encVars == <<eMarshal, eMsgs, eIn, eOut, eEnded, eError, eState, eUsed>>
appVars == <<aServices, aEntries, aLast, aAdded, aRegistered, aPreloaded>>
intervalVars == <<iStr, iMicros, iOp, iRes>>
metaVars == <<mKey, mValue, mOp, mRes>>
vars == <<frameVars, decVars, encVars, appVars, intervalVars, metaVars>>

\* what the actions of one component leave alone
frameRest == <<decVars, encVars, appVars, intervalVars, metaVars>>
decRest == <<frameVars, encVars, appVars, intervalVars, metaVars>>
encRest == <<frameVars, decVars, appVars, intervalVars, metaVars>>
appRest == <<frameVars, decVars, encVars, intervalVars, metaVars>>
intervalRest == <<frameVars, decVars, encVars, appVars, metaVars>>
metaRest == <<frameVars, decVars, encVars, appVars, intervalVars>>

(***************************************************************************)
(* Bounds of the model.                                                    *)
(***************************************************************************)
\* longest byte sequence handed to a one-shot codec call
MaxFrameLen == 7
\* most messages framed onto one stream
MaxMsgs == 3
\* interval amounts 1..MaxAmount are tried with every suffix
MaxAmount == 61
\* metadata strings, buffers and arrays hold at most this many elements
MaxStringLen == 2
MaxBufferLen == 3
MaxArrayLen == 2

\* byte values the one-shot inputs are drawn from
ByteSample == {0, 1, 2}
\* payloads of streamed messages: empty, one byte, two bytes
Payloads == {<<>>, <<1>>, <<0, 2>>}

SeqsUpTo(S, n) == UNION {[1..k -> S] : k \in 0..n}

Min(a, b) == IF a < b THEN a ELSE b

(***************************************************************************)
(* Buffer primitives.                                                      *)
(***************************************************************************)
\* buf.slice(start, end): the bytes at offsets start .. end-1, clamped
slice(buf, start, end) == SubSeq(buf, start + 1, Min(end, Len(buf)))

readUInt8(buf, offset) == buf[offset + 1]

readUInt32BE(buf, offset) ==
  buf[offset + 1] * 16777216 + buf[offset + 2] * 65536
    + buf[offset + 3] * 256 + buf[offset + 4]

\* the one byte buf.writeUInt8(value, 0, 1) stores (noAssert: no range check)
writeUInt8(value) == <<value % 256>>

\* writeUInt32BE storing the least significant byte first
writeUInt32BE_littleEndian(value) ==
  <<value % 256, (value \div 256) % 256,
    (value \div 65536) % 256, (value \div 16777216) % 256>>

\* the four bytes buf.writeUInt32BE(value, 1, 4) stores (noAssert: wraps)
writeUInt32BE(value) ==
  <<(value \div 16777216) % 256, (value \div 65536) % 256,
    (value \div 256) % 256, value % 256>>

(***************************************************************************)
(* The marshal / unmarshal callbacks a caller configures: none ("absent"), *)
(* the identity, or a callback that throws an Error on every buffer whose  *)
(* first byte is 1 and is the identity elsewhere.                          *)
(***************************************************************************)
Callbacks == {"absent", "identity", "throwing"}

CallbackThrows(cb, x) == cb = "throwing" /\ Len(x) > 0 /\ x[1] = 1

CallbackValue(cb, x) == x

\* undefined: the value of a callback argument that was not passed
Undefined == <<-1>>

\* what a done callback receives, and whether the user callback was invoked
Outcome(err, value, called) == [err |-> err, value |-> value, called |-> called]

(***************************************************************************)
(* Frame codec.                                                            *)
(***************************************************************************)
MINIMUM_ENCODED_LENGTH == 5
LENGTH_INDEX == 1
COMPRESSION_INDEX == 0

\* getBody writing the length of the whole record instead of the body's
getBody_countsHeader(size, body) ==
  writeUInt8(0) \o writeUInt32BE(size + MINIMUM_ENCODED_LENGTH) \o body

\* MsgHeaderStream.getBody: the header block in front of the written parts
getBody(size, body) == writeUInt8(0) \o writeUInt32BE(size) \o body

\* encodeMessage(message, {marshal}, done): done(err) when marshal throws,
\* otherwise done(getBody()) once the one pushed chunk has been piped
encodeMessage(message, marshal) ==
  IF marshal # "absent"
  THEN IF CallbackThrows(marshal, message)
       THEN Outcome("CallbackError", Undefined, TRUE)
       ELSE LET chunk == CallbackValue(marshal, message)
            IN  Outcome("none", getBody(Len(chunk), chunk), TRUE)
  ELSE Outcome("none", getBody(Len(message), message), FALSE)

\* decodeMessage refusing a buffer of exactly the minimum length
decodeMessage_minimumExclusive(encoded, unmarshal) ==
  IF Len(encoded) <= MINIMUM_ENCODED_LENGTH
  THEN Outcome("RangeError", Undefined, FALSE)
  ELSE LET compression == readUInt8(encoded, COMPRESSION_INDEX)
           length == readUInt32BE(encoded, LENGTH_INDEX)
           payload == slice(encoded, MINIMUM_ENCODED_LENGTH, Len(encoded))
       IN  IF compression = 0 /\ Len(payload) # length
           THEN Outcome("Error", Undefined, FALSE)
           ELSE IF unmarshal # "absent"
                THEN IF CallbackThrows(unmarshal, payload)
                     THEN Outcome("CallbackError", Undefined, TRUE)
                     ELSE Outcome("none", CallbackValue(unmarshal, payload), TRUE)
                ELSE Outcome("none", payload, FALSE)

\* decodeMessage accepting a payload longer than the length field says
decodeMessage_acceptsLonger(encoded, unmarshal) ==
  IF Len(encoded) < MINIMUM_ENCODED_LENGTH
  THEN Outcome("RangeError", Undefined, FALSE)
  ELSE LET compression == readUInt8(encoded, COMPRESSION_INDEX)
           length == readUInt32BE(encoded, LENGTH_INDEX)
           payload == slice(encoded, MINIMUM_ENCODED_LENGTH, Len(encoded))
       IN  IF compression = 0 /\ Len(payload) < length
           THEN Outcome("Error", Undefined, FALSE)
           ELSE IF unmarshal # "absent"
                THEN IF CallbackThrows(unmarshal, payload)
                     THEN Outcome("CallbackError", Undefined, TRUE)
                     ELSE Outcome("none", CallbackValue(unmarshal, payload), TRUE)
                ELSE Outcome("none", payload, FALSE)

\* decodeMessage(encoded, {unmarshal}, done)
decodeMessage(encoded, unmarshal) ==
  IF Len(encoded) < MINIMUM_ENCODED_LENGTH
  THEN Outcome("RangeError", Undefined, FALSE)
  ELSE LET compression == readUInt8(encoded, COMPRESSION_INDEX)
           length == readUInt32BE(encoded, LENGTH_INDEX)
           payload == slice(encoded, MINIMUM_ENCODED_LENGTH, Len(encoded))
       IN  IF compression = 0 /\ Len(payload) # length
           THEN Outcome("Error", Undefined, FALSE)
           ELSE IF unmarshal # "absent"
                THEN IF CallbackThrows(unmarshal, payload)
                     THEN Outcome("CallbackError", Undefined, TRUE)
                     ELSE Outcome("none", CallbackValue(unmarshal, payload), TRUE)
                ELSE Outcome("none", payload, FALSE)

(***************************************************************************)
(* One-shot calls: the argument and the callback are drawn in FrameInit,   *)
(* each action is one call.                                                *)
(***************************************************************************)
FrameIdle ==
  /\ fIn = <<>>
  /\ fMode = "absent"
  /\ fOp = "idle"
  /\ fRes = Outcome("none", Undefined, FALSE)

FrameInit ==
  /\ fIn \in SeqsUpTo(ByteSample, MaxFrameLen)
  /\ fMode \in Callbacks
  /\ fOp = "idle"
  /\ fRes = Outcome("none", Undefined, FALSE)

Encode ==
  /\ fOp = "idle"
  /\ fOp' = "encode"
  /\ fRes' = encodeMessage(fIn, fMode)
  /\ UNCHANGED <<fIn, fMode, frameRest>>

Decode ==
  /\ fOp = "idle"
  /\ fOp' = "decode"
  /\ fRes' = decodeMessage(fIn, fMode)
  /\ UNCHANGED <<fIn, fMode, frameRest>>

\* decodeMessage on what encodeMessage handed to its callback
EncodeThenDecode ==
  /\ fOp = "idle"
  /\ encodeMessage(fIn, fMode).err = "none"
  /\ fOp' = "roundtrip"
  /\ fRes' = decodeMessage(encodeMessage(fIn, fMode).value, fMode)
  /\ UNCHANGED <<fIn, fMode, frameRest>>

FrameNext ==
  \/ Encode
  \/ Decode
  \/ EncodeThenDecode

(***************************************************************************)
(* DecodingStream.                                                         *)
(*                                                                         *)
(* The transport writes the bytes of dWire in chunks of any size and may   *)
(* end the stream at any time.  Each action is one call of a handler by    *)
(* the stream machinery, which calls _transform again only after next()    *)
(* and _flush only once every written chunk has called next(); an          *)
(* exception that leaves a handler reaches the caller of write() or end(), *)
(* the handler's callback is never called and the stream stays where it    *)
(* is.                                                                     *)
(***************************************************************************)
\* this._buffer = null
NullBuffer == <<-2>>

\* the record a peer sends for payload p with flag byte flag
PeerFrame(flag, p) == <<flag>> \o Tail(encodeMessage(p, "absent").value)

RECURSIVE PeerWire(_, _)
PeerWire(flag, msgs) ==
  IF msgs = <<>> THEN <<>>
  ELSE PeerFrame(flag, Head(msgs)) \o PeerWire(flag, Tail(msgs))

\* what one handler call did: the new this._buffer, the objects pushed, the
\* error emitted, the exception thrown, and whether its callback was called
Handled(buffer, pushed, error, thrown, called) ==
  [buffer |-> buffer, pushed |-> pushed, error |-> error, thrown |-> thrown,
   called |-> called]

transform_keepsConsumed(buffer, chunk, unmarshal) ==
  LET buffer1 == IF buffer # NullBuffer THEN buffer \o chunk ELSE chunk
  IN  IF Len(buffer1) < MINIMUM_ENCODED_LENGTH
      THEN Handled(buffer1, <<>>, "none", "none", TRUE)
      ELSE LET payloadLength ==
                 readUInt32BE(buffer1, LENGTH_INDEX) + MINIMUM_ENCODED_LENGTH
           IN  IF Len(buffer1) < payloadLength
               THEN Handled(buffer1, <<>>, "none", "none", TRUE)
               ELSE Handled(buffer1,
                            <<slice(buffer1, MINIMUM_ENCODED_LENGTH, payloadLength)>>,
                            "none", "none", TRUE)

\* DecodingStream.prototype._transform(chunk, unused_encoding, next)
transform(buffer, chunk, unmarshal) ==
  LET buffer1 == IF buffer # NullBuffer THEN buffer \o chunk ELSE chunk
  IN  IF Len(buffer1) < MINIMUM_ENCODED_LENGTH
      THEN Handled(buffer1, <<>>, "none", "none", TRUE)
      ELSE LET length == readUInt32BE(buffer1, LENGTH_INDEX)
               payloadLength == length + MINIMUM_ENCODED_LENGTH
           IN  IF Len(buffer1) < payloadLength
               THEN Handled(buffer1, <<>>, "none", "none", TRUE)
               ELSE LET msg == slice(buffer1, MINIMUM_ENCODED_LENGTH, payloadLength)
                        rest == slice(buffer1, payloadLength, Len(buffer1))
                    IN  IF unmarshal # "absent"
                        THEN IF CallbackThrows(unmarshal, msg)
                             THEN Handled(buffer1, <<>>, "none", "CallbackError", FALSE)
                             ELSE Handled(rest, <<CallbackValue(unmarshal, msg)>>,
                                          "none", "none", TRUE)
                        ELSE Handled(rest, <<msg>>, "none", "none", TRUE)

\* DecodingStream.prototype._flush(done)
flush(buffer, unmarshal) ==
  IF buffer = NullBuffer \/ Len(buffer) = 0
  THEN Handled(buffer, <<>>, "none", "none", TRUE)
  ELSE LET decoded == decodeMessage(buffer, "absent")
       IN  IF decoded.err # "none"
           THEN Handled(buffer, <<>>, decoded.err, "none", FALSE)
           ELSE IF unmarshal # "absent"
                THEN IF CallbackThrows(unmarshal, decoded.value)
                     THEN Handled(buffer, <<>>, "none", "CallbackError", FALSE)
                     ELSE Handled(buffer, <<CallbackValue(unmarshal, decoded.value)>>,
                                  "none", "none", TRUE)
                ELSE Handled(buffer, <<decoded.value>>, "none", "none", TRUE)

\* _flush has not been called
NotEnded == [called |-> FALSE, buffer |-> NullBuffer, out |-> 0]

DecIdle ==
  /\ dUnmarshal = "absent"
  /\ dFlag = 0
  /\ dMsgs = <<>>
  /\ dWire = <<>>
  /\ dBuffer = NullBuffer
  /\ dOut = <<>>
  /\ dError = "none"
  /\ dThrown = "none"
  /\ dState = "constructed"
  /\ dEnd = NotEnded
  /\ dFailOut = -1

\* new DecodingStream({unmarshal}), and the byte stream its peer will send
DecInit ==
  /\ dUnmarshal \in Callbacks
  /\ dFlag \in {0, 1}
  /\ dMsgs \in SeqsUpTo(Payloads, MaxMsgs)
  /\ dWire = PeerWire(dFlag, dMsgs)
  /\ dBuffer = NullBuffer
  /\ dOut = <<>>
  /\ dError = "none"
  /\ dThrown = "none"
  /\ dState = "constructed"
  /\ dEnd = NotEnded
  /\ dFailOut = -1

\* the stream accepts a handler call: its last callback has been called
DecReady == dState \in {"constructed", "next"}

\* write(chunk): the next k bytes arrive and _transform runs on them
Write ==
  /\ DecReady
  /\ \E k \in 1..Len(dWire) :
       LET h == transform(dBuffer, SubSeq(dWire, 1, k), dUnmarshal)
       IN  /\ dWire' = SubSeq(dWire, k + 1, Len(dWire))
           /\ dBuffer' = h.buffer
           /\ dOut' = dOut \o h.pushed
           /\ dError' = h.error
           /\ dThrown' = h.thrown
           /\ dState' = IF h.called THEN "next" ELSE "threw"
           /\ dFailOut' = IF h.thrown # "none" THEN Len(dOut) ELSE dFailOut
  /\ UNCHANGED <<dUnmarshal, dFlag, dMsgs, dEnd, decRest>>

\* end(): _flush runs on what is buffered
End ==
  /\ DecReady
  /\ LET h == flush(dBuffer, dUnmarshal)
     IN  /\ dEnd' = [called |-> TRUE, buffer |-> dBuffer, out |-> Len(dOut)]
         /\ dBuffer' = h.buffer
         /\ dOut' = dOut \o h.pushed
         /\ dError' = h.error
         /\ dThrown' = h.thrown
         /\ dState' = IF h.called THEN "done"
                      ELSE IF h.thrown # "none" THEN "threw" ELSE "errored"
         /\ dFailOut' = IF h.thrown # "none" THEN Len(dOut) ELSE dFailOut
  /\ UNCHANGED <<dUnmarshal, dFlag, dMsgs, dWire, decRest>>

DecNext ==
  \/ Write
  \/ End

(***************************************************************************)
(* EncodingStream.  Each written message is one call of _transform; the    *)
(* stream machinery calls it again only after next().                      *)
(***************************************************************************)
\* what one _transform call did: the bytes pushed, whether it pushed null,
\* the error emitted, and whether next() was called
Encoded(pushed, ended, error, called) ==
  [pushed |-> pushed, ended |-> ended, error |-> error, called |-> called]

\* _transform that calls next() after emitting the error as well
encTransform_nextAfterError(msg, marshal) ==
  LET encoded == encodeMessage(msg, marshal)
  IN  IF encoded.err # "none"
      THEN Encoded(<<>>, TRUE, encoded.err, TRUE)
      ELSE Encoded(encoded.value, FALSE, "none", TRUE)

\* EncodingStream.prototype._transform(msg, unused_encoding, next) with its
\* handleEncoded callback; encoded is an Error exactly when marshal threw
encTransform(msg, marshal) ==
  LET encoded == encodeMessage(msg, marshal)
  IN  IF encoded.err # "none"
      THEN Encoded(<<>>, TRUE, encoded.err, FALSE)
      ELSE Encoded(encoded.value, FALSE, "none", TRUE)

EncIdle ==
  /\ eMarshal = "absent"
  /\ eMsgs = <<>>
  /\ eIn = <<>>
  /\ eOut = <<>>
  /\ eEnded = FALSE
  /\ eError = "none"
  /\ eState = "constructed"
  /\ eUsed = <<>>

\* new EncodingStream({marshal}), and the messages its caller will write
EncInit ==
  /\ eMarshal \in Callbacks
  /\ eMsgs \in SeqsUpTo(Payloads, MaxMsgs)
  /\ eIn = eMsgs
  /\ eOut = <<>>
  /\ eEnded = FALSE
  /\ eError = "none"
  /\ eState = "constructed"
  /\ eUsed = <<>>

EncReady == eState \in {"constructed", "next"}

\* write(msg): _transform runs on the next message
WriteMessage ==
  /\ EncReady
  /\ eIn # <<>>
  /\ LET h == encTransform(Head(eIn), eMarshal)
     IN  /\ eOut' = eOut \o h.pushed
         /\ eEnded' = h.ended
         /\ eError' = h.error
         /\ eState' = IF h.called THEN "next" ELSE "errored"
  /\ eIn' = Tail(eIn)
  /\ eUsed' = Append(eUsed, eMarshal)
  /\ UNCHANGED <<eMarshal, eMsgs, encRest>>

\* stream.marshal = x: the setter defined in the constructor
SetMarshal ==
  /\ EncReady
  /\ eIn # <<>>
  /\ \E x \in Callbacks \ {eMarshal} : eMarshal' = x
  /\ UNCHANGED <<eMsgs, eIn, eOut, eEnded, eError, eState, eUsed, encRest>>

\* end(): no _flush is defined, the output ends after the last next()
EndEncoding ==
  /\ EncReady
  /\ eState' = "finished"
  /\ eEnded' = TRUE
  /\ UNCHANGED <<eMarshal, eMsgs, eIn, eOut, eError, eUsed, encRest>>

EncNext ==
  \/ WriteMessage
  \/ SetMarshal
  \/ EndEncoding

(***************************************************************************)
(* RpcApp, the route registry.  Services and methods are the descriptors   *)
(* of test/app.js and two more; a callback or a handler that is not set is *)
(* "undefined".                                                            *)
(***************************************************************************)
Method(name, marshal, unmarshal) ==
  [name |-> name, marshal |-> marshal, unmarshal |-> unmarshal]

Service(name, methods) == [name |-> name, methods |-> methods]

testSvc == Service("test", <<Method("do_reverse", "reverser", "irreverser")>>)

basicSvc == Service("basic", <<Method("noop", "undefined", "undefined")>>)

\* a service of two methods, each declaring one callback only
pairSvc ==
  Service("pair", <<Method("first", "reverser", "undefined"),
                    Method("second", "undefined", "irreverser")>>)

\* another descriptor under the name of testSvc
otherTestSvc == Service("test", <<Method("do_other", "undefined", "undefined")>>)

Services == {testSvc, basicSvc, pairSvc, otherTestSvc}

Handlers == {"noop", "handler"}

\* the route of a method of a service
route(serviceName, methodName) == "/" \o serviceName \o "/" \o methodName

\* the routes of a service, in method declaration order
serviceRoutes(service) ==
  [i \in 1..Len(service.methods) |-> route(service.name, service.methods[i].name)]

\* the routes register is called with: every declared one and an unknown one
Routes ==
  UNION {{serviceRoutes(s)[i] : i \in 1..Len(s.methods)} : s \in Services}
    \cup {"this-does-not-exist"}

\* a fresh registry entry per method of the service
serviceEntries(service) ==
  [i \in 1..Len(service.methods) |->
     [route |-> route(service.name, service.methods[i].name),
      marshal |-> service.methods[i].marshal,
      unmarshal |-> service.methods[i].unmarshal,
      handler |-> "undefined"]]

\* the positions of the entries of a route (at most one)
entryIndex(theRoute) == {i \in 1..Len(aEntries) : aEntries[i].route = theRoute}

hasEntry(theRoute) == entryIndex(theRoute) # {}

entry(theRoute) == aEntries[CHOOSE i \in entryIndex(theRoute) : TRUE]

\* register accepting a known route whether it has a handler or not
canRegister_anyKnownRoute(theRoute) == hasEntry(theRoute)

\* register accepts the route: it is known and has no handler yet
canRegister(theRoute) ==
  hasEntry(theRoute) /\ entry(theRoute).handler = "undefined"

\* hasRoute answering for the route being known
hasRoute_knownRoute(theRoute) == hasEntry(theRoute)

\* hasRoute(route)
hasRoute(theRoute) ==
  hasEntry(theRoute) /\ entry(theRoute).handler # "undefined"

\* marshaller answering only for routes that have a handler
marshaller_needsHandler(theRoute) ==
  IF hasEntry(theRoute) /\ entry(theRoute).handler # "undefined"
  THEN entry(theRoute).marshal ELSE "undefined"

\* marshaller(route)
marshaller(theRoute) ==
  IF hasEntry(theRoute) THEN entry(theRoute).marshal ELSE "undefined"

\* unmarshaller(route)
unmarshaller(theRoute) ==
  IF hasEntry(theRoute) THEN entry(theRoute).unmarshal ELSE "undefined"

RECURSIVE routesWithout(_)
\* the routes of the entries that have no handler, in the entries' order
routesWithout(entries) ==
  IF entries = <<>> THEN <<>>
  ELSE (IF Head(entries).handler = "undefined"
        THEN <<Head(entries).route>> ELSE <<>>) \o routesWithout(Tail(entries))

RECURSIVE routesOfEntries(_)
routesOfEntries(entries) ==
  IF entries = <<>> THEN <<>>
  ELSE <<Head(entries).route>> \o routesOfEntries(Tail(entries))

\* missingRoutes that lists every known route, with a handler or not
missingRoutes_everyRoute == routesOfEntries(aEntries)

\* missingRoutes()
missingRoutes == routesWithout(aEntries)

\* isComplete()
isComplete == missingRoutes = <<>>

\* the names and entries after adding the services of a sequence in order
RECURSIVE loaded(_)
loaded(services) ==
  IF services = <<>> THEN [names |-> <<>>, entries |-> <<>>]
  ELSE LET before == loaded(SubSeq(services, 1, Len(services) - 1))
           last == services[Len(services)]
       IN  [names |-> Append(before.names, last.name),
            entries |-> before.entries \o serviceEntries(last)]

\* sequences of services of distinct names
DistinctServices ==
  {ss \in SeqsUpTo(Services, 2) :
     \A i, j \in 1..Len(ss) : i # j => ss[i].name # ss[j].name}

\* addService looking only at the service added last
nameTaken_lastOnly(name) ==
  aServices # <<>> /\ aServices[Len(aServices)] = name

\* addService refuses the name: a service of that name is in the registry
nameTaken(name) == \E i \in 1..Len(aServices) : aServices[i] = name

Called(op, arg, threw) == [op |-> op, arg |-> arg, threw |-> threw]

AppIdle ==
  /\ aServices = <<>>
  /\ aEntries = <<>>
  /\ aLast = Called("new", "", FALSE)
  /\ aAdded = <<>>
  /\ aRegistered = {}
  /\ aPreloaded = 0

\* new RpcApp(...services)
AppInit ==
  \E ss \in DistinctServices :
    /\ aServices = loaded(ss).names
    /\ aEntries = loaded(ss).entries
    /\ aLast = Called("new", "", FALSE)
    /\ aAdded = ss
    /\ aRegistered = {}
    /\ aPreloaded = Len(ss)

\* addService(service) of a service whose name is new
AddService ==
  \E service \in Services :
    /\ ~nameTaken(service.name)
    /\ aServices' = Append(aServices, service.name)
    /\ aEntries' = aEntries \o serviceEntries(service)
    /\ aLast' = Called("addService", service.name, FALSE)
    /\ aAdded' = Append(aAdded, service)
    /\ UNCHANGED <<aRegistered, aPreloaded, appRest>>

\* addService(service) of a service whose name is present: throws
AddServiceAgain ==
  \E service \in Services :
    /\ nameTaken(service.name)
    /\ aLast' = Called("addService", service.name, TRUE)
    /\ UNCHANGED <<aServices, aEntries, aAdded, aRegistered, aPreloaded, appRest>>

\* register(route, handler) of a known route that has no handler
Register ==
  \E theRoute \in Routes, handler \in Handlers :
    /\ canRegister(theRoute)
    /\ aEntries' = [i \in 1..Len(aEntries) |->
                      IF aEntries[i].route = theRoute
                      THEN [aEntries[i] EXCEPT !.handler = handler]
                      ELSE aEntries[i]]
    /\ aLast' = Called("register", theRoute, FALSE)
    /\ aRegistered' = aRegistered \cup {theRoute}
    /\ UNCHANGED <<aServices, aAdded, aPreloaded, appRest>>

\* register(route, handler) of an unknown route or of one that has a
\* handler: throws
RegisterRefused ==
  \E theRoute \in Routes, handler \in Handlers :
    /\ ~canRegister(theRoute)
    /\ aLast' = Called("register", theRoute, TRUE)
    /\ UNCHANGED <<aServices, aEntries, aAdded, aRegistered, aPreloaded, appRest>>

AppNext ==
  \/ AddService
  \/ AddServiceAgain
  \/ Register
  \/ RegisterRefused

(***************************************************************************)
(* Numbers of the interval codec.  A JavaScript number that holds a        *)
(* non-negative integer is kept as its base-1000 limbs, least significant  *)
(* first and without leading zero limbs (zero is the empty sequence), so   *)
(* that values beyond 2^31 are computed exactly, as the doubles do for     *)
(* every value used here.  A unit weight is kept as its factors.           *)
(***************************************************************************)
RECURSIVE BigFromInt(_)
BigFromInt(k) == IF k = 0 THEN <<>> ELSE <<k % 1000>> \o BigFromInt(k \div 1000)

RECURSIVE BigNorm(_)
\* n without its leading zero limbs
BigNorm(n) ==
  IF n = <<>> THEN <<>>
  ELSE IF n[Len(n)] = 0 THEN BigNorm(SubSeq(n, 1, Len(n) - 1)) ELSE n

RECURSIVE BigMulAdd(_, _, _)
\* n * k + c, for k <= 1000
BigMulAdd(n, k, c) ==
  IF n = <<>> THEN BigFromInt(c)
  ELSE LET t == Head(n) * k + c
       IN  BigNorm(<<t % 1000>> \o BigMulAdd(Tail(n), k, t \div 1000))

RECURSIVE BigDivMod(_, _)
\* the quotient and the remainder of n by d, for d <= 1000
BigDivMod(n, d) ==
  IF n = <<>> THEN [q |-> <<>>, r |-> 0]
  ELSE LET hi == BigDivMod(Tail(n), d)
           cur == hi.r * 1000 + Head(n)
       IN  [q |-> BigNorm(<<cur \div d>> \o hi.q), r |-> cur % d]

RECURSIVE BigGreater(_, _)
\* a > b
BigGreater(a, b) ==
  IF Len(a) # Len(b) THEN Len(a) > Len(b)
  ELSE IF a = <<>> THEN FALSE
  ELSE IF a[Len(a)] # b[Len(b)] THEN a[Len(a)] > b[Len(b)]
  ELSE BigGreater(SubSeq(a, 1, Len(a) - 1), SubSeq(b, 1, Len(b) - 1))

RECURSIVE BigTimes(_, _)
\* n times the product of the factors
BigTimes(n, factors) ==
  IF factors = <<>> THEN n
  ELSE BigTimes(BigMulAdd(n, Head(factors), 0), Tail(factors))

RECURSIVE BigDivides(_, _)
\* n % (product of the factors) === 0
BigDivides(factors, n) ==
  IF factors = <<>> THEN TRUE
  ELSE /\ BigDivMod(n, Head(factors)).r = 0
       /\ BigDivides(Tail(factors), BigDivMod(n, Head(factors)).q)

RECURSIVE BigQuotient(_, _)
\* Math.floor(n / (product of the factors))
BigQuotient(n, factors) ==
  IF factors = <<>> THEN n
  ELSE BigQuotient(BigDivMod(n, Head(factors)).q, Tail(factors))

DecimalDigits == <<"0", "1", "2", "3", "4", "5", "6", "7", "8", "9">>

IsDigit(ch) == \E d \in 1..10 : DecimalDigits[d] = ch

DigitValue(ch) == (CHOOSE d \in 1..10 : DecimalDigits[d] = ch) - 1

RECURSIVE BigToString(_)
\* '' + n: the decimal digits of n
BigToString(n) ==
  IF Len(n) = 0 THEN <<"0">>
  ELSE LET dm == BigDivMod(n, 10)
       IN  (IF dm.q = <<>> THEN <<>> ELSE BigToString(dm.q))
             \o <<DecimalDigits[dm.r + 1]>>

RECURSIVE parseInt(_)
\* parseInt(digits, 10) of a string of decimal digits
parseInt(digits) ==
  IF digits = <<>> THEN <<>>
  ELSE BigMulAdd(parseInt(SubSeq(digits, 1, Len(digits) - 1)), 10,
                 DigitValue(digits[Len(digits)]))

(***************************************************************************)
(* Interval codec.  A string is the sequence of its characters.            *)
(***************************************************************************)
Suffixes_finestFirst == <<"u", "m", "S", "M", "H">>

\* the keys of microsBySuffix, in insertion order
Suffixes == <<"H", "M", "S", "m", "u">>

\* microsBySuffix, each weight as its factors
microsBySuffix(sfx) ==
  CASE sfx = "H" -> <<1000, 1000, 60, 60>>
    [] sfx = "M" -> <<1000, 1000, 60>>
    [] sfx = "S" -> <<1000, 1000>>
    [] sfx = "m" -> <<1000>>
    [] sfx = "u" -> <<>>

\* maxInterval = Math.pow(10, 8) - 1
maxInterval == BigFromInt(99999999)

\* what a call returned or threw
Returned(value) == [err |-> "none", value |-> value]
Threw(err) == [err |-> err, value |-> <<>>]

RECURSIVE stepUp_untilHours(_, _)
stepUp_untilHours(amt, sfx) ==
  CASE sfx = "u" -> stepUp_untilHours(BigDivMod(amt, 1000).q, "m")
    [] sfx = "m" -> stepUp_untilHours(BigDivMod(amt, 1000).q, "S")
    [] sfx = "S" -> stepUp_untilHours(BigDivMod(amt, 60).q, "M")
    [] sfx = "M" -> stepUp_untilHours(BigDivMod(amt, 60).q, "H")
    [] OTHER -> [amt |-> amt, sfx |-> sfx]

\* Math.ceil(n / d), for d <= 1000
BigCeilDiv(n, d) ==
  IF BigDivMod(n, d).r = 0 THEN BigDivMod(n, d).q
  ELSE BigMulAdd(BigDivMod(n, d).q, 1, 1)

RECURSIVE stepUp_ceiling(_, _)
stepUp_ceiling(amt, sfx) ==
  IF BigGreater(amt, maxInterval) /\ sfx # "H"
  THEN CASE sfx = "u" -> stepUp_ceiling(BigCeilDiv(amt, 1000), "m")
         [] sfx = "m" -> stepUp_ceiling(BigCeilDiv(amt, 1000), "S")
         [] sfx = "S" -> stepUp_ceiling(BigCeilDiv(amt, 60), "M")
         [] sfx = "M" -> stepUp_ceiling(BigCeilDiv(amt, 60), "H")
  ELSE [amt |-> amt, sfx |-> sfx]

RECURSIVE stepUp(_, _)
\* the while loop of microsToInterval
stepUp(amt, sfx) ==
  IF BigGreater(amt, maxInterval) /\ sfx # "H"
  THEN CASE sfx = "u" -> stepUp(BigDivMod(amt, 1000).q, "m")
         [] sfx = "m" -> stepUp(BigDivMod(amt, 1000).q, "S")
         [] sfx = "S" -> stepUp(BigDivMod(amt, 60).q, "M")
         [] sfx = "M" -> stepUp(BigDivMod(amt, 60).q, "H")
  ELSE [amt |-> amt, sfx |-> sfx]

RECURSIVE forEachSuffix_noDivisibilityTest(_, _)
forEachSuffix_noDivisibilityTest(micros, i) ==
  IF i > Len(Suffixes) THEN Threw("RangeError")
  ELSE LET stepped == stepUp(BigQuotient(micros, microsBySuffix(Suffixes[i])),
                             Suffixes[i])
       IN  IF ~BigGreater(stepped.amt, maxInterval)
           THEN Returned(BigToString(stepped.amt) \o <<stepped.sfx>>)
           ELSE forEachSuffix_noDivisibilityTest(micros, i + 1)

RECURSIVE forEachSuffix(_, _)
\* the _.forEach of microsToInterval from the i-th suffix on
forEachSuffix(micros, i) ==
  IF i > Len(Suffixes) THEN Threw("RangeError")
  ELSE LET denom == microsBySuffix(Suffixes[i])
       IN  IF BigDivides(denom, micros)
           THEN LET stepped == stepUp(BigQuotient(micros, denom), Suffixes[i])
                IN  IF ~BigGreater(stepped.amt, maxInterval)
                    THEN Returned(BigToString(stepped.amt) \o <<stepped.sfx>>)
                    ELSE forEachSuffix(micros, i + 1)
           ELSE forEachSuffix(micros, i + 1)

\* microsToInterval(micros)
microsToInterval(micros) == forEachSuffix(micros, 1)

\* interval.match(intervalRx) for intervalRx = /^(\d+)(H|M|S|m|u|n)$/
intervalRx(interval) ==
  /\ Len(interval) >= 2
  /\ \A k \in 1..Len(interval) - 1 : IsDigit(interval[k])
  /\ interval[Len(interval)] \in {"H", "M", "S", "m", "u", "n"}

\* intervalToMicros(interval)
intervalToMicros(interval) ==
  IF ~intervalRx(interval) THEN Threw("RangeError")
  ELSE LET amt == parseInt(SubSeq(interval, 1, Len(interval) - 1))
           suffix == interval[Len(interval)]
       IN  IF suffix = "n"
           THEN Returned(BigTimes(BigDivMod(amt, 1000).q, microsBySuffix("u")))
           ELSE Returned(BigTimes(amt, microsBySuffix(suffix)))

\* isInterval(interval)
isInterval(interval) == intervalRx(interval)

(***************************************************************************)
(* Interval calls: the arguments are drawn in IntervalInit, each action is *)
(* one call.                                                               *)
(***************************************************************************)
\* amounts tried besides 1..MaxAmount: around the unit factors and the cap,
\* and with nine and ten digits
SpecialAmounts ==
  {0, 999, 1000, 1001, 3599, 3600, 86400, 1000000, 3600000, 60000000,
   99999960, 99999998, 99999999, 100000000, 123456789, 999999999, 2000000000}

\* strings that are no amount followed by a suffix
MalformedIntervals ==
  {<<>>, <<"H">>, <<"1">>, <<"1", "x">>, <<"1", "H", "H">>, <<"-", "1", "S">>,
   <<"1", ".", "5", "S">>, <<" ", "1", "S">>, <<"1", "S", " ">>, <<"S", "1">>,
   <<"0", "0", "7", "S">>}

IntervalStrings ==
  {BigToString(BigFromInt(a)) \o <<sfx>> :
     a \in (1..MaxAmount) \cup SpecialAmounts,
     sfx \in {"H", "M", "S", "m", "u", "n"}}
    \cup MalformedIntervals

\* 10^14
TenToThe14 == BigTimes(BigFromInt(100), <<1000, 1000, 1000, 1000>>)

\* numbers of microseconds tried: small ones, the results of decoding the
\* strings above, and values whose quotients exceed the cap
MicrosSamples ==
  {BigFromInt(k) : k \in 0..MaxAmount}
    \cup {intervalToMicros(str).value : str \in IntervalStrings}
    \cup {TenToThe14,
          BigMulAdd(TenToThe14, 1, 1),
          BigMulAdd(BigTimes(BigFromInt(99999999), <<1000, 1000, 60, 60>>), 1, 1),
          BigTimes(BigFromInt(100000001), <<1000, 1000, 60>>)}

IntervalIdle ==
  /\ iStr = <<>>
  /\ iMicros = <<>>
  /\ iOp = "idle"
  /\ iRes = Returned(<<>>)

IntervalInit ==
  /\ \/ iStr \in IntervalStrings /\ iMicros = <<>>
     \/ iStr = <<>> /\ iMicros \in MicrosSamples
  /\ iOp = "idle"
  /\ iRes = Returned(<<>>)

\* microsToInterval(iMicros)
MicrosToInterval ==
  /\ iOp = "idle"
  /\ iStr = <<>>
  /\ iOp' = "microsToInterval"
  /\ iRes' = microsToInterval(iMicros)
  /\ UNCHANGED <<iStr, iMicros, intervalRest>>

\* intervalToMicros(iStr)
IntervalToMicros ==
  /\ iOp = "idle"
  /\ iOp' = "intervalToMicros"
  /\ iRes' = intervalToMicros(iStr)
  /\ UNCHANGED <<iStr, iMicros, intervalRest>>

\* isInterval(iStr)
IsInterval ==
  /\ iOp = "idle"
  /\ iOp' = "isInterval"
  /\ iRes' = Returned(isInterval(iStr))
  /\ UNCHANGED <<iStr, iMicros, intervalRest>>

\* microsToInterval(intervalToMicros(iStr))
DecodeThenEncode ==
  /\ iOp = "idle"
  /\ intervalToMicros(iStr).err = "none"
  /\ iOp' = "decodeThenEncode"
  /\ iRes' = microsToInterval(intervalToMicros(iStr).value)
  /\ UNCHANGED <<iStr, iMicros, intervalRest>>

IntervalNext ==
  \/ MicrosToInterval
  \/ IntervalToMicros
  \/ IsInterval
  \/ DecodeThenEncode

(***************************************************************************)
(* Metadata codec.  A string value is the sequence of its code points, a   *)
(* Buffer the sequence of its bytes, an Array a sequence of those; a key   *)
(* is a string.                                                            *)
(***************************************************************************)
String(chars) == [type |-> "string", chars |-> chars]
Buffer(bytes) == [type |-> "buffer", bytes |-> bytes]
Array(elems) == [type |-> "array", elems |-> elems]

isAscii_alphanumeric(chars) ==
  /\ Len(chars) >= 1
  /\ \A k \in 1..Len(chars) :
       chars[k] \in (48..57) \cup (65..90) \cup (97..122)

\* isAscii.test(chars) for isAscii = /^[\x00-\x7F]+$/
isAscii(chars) ==
  /\ Len(chars) >= 1
  /\ \A k \in 1..Len(chars) : chars[k] \in 0..127

\* the UTF-8 bytes of one code point of the basic plane
utf8Char(cp) ==
  IF cp < 128 THEN <<cp>>
  ELSE IF cp < 2048 THEN <<192 + (cp \div 64), 128 + (cp % 64)>>
  ELSE <<224 + (cp \div 4096), 128 + ((cp \div 64) % 64), 128 + (cp % 64)>>

RECURSIVE utf8(_)
utf8(chars) ==
  IF chars = <<>> THEN <<>> ELSE utf8Char(Head(chars)) \o utf8(Tail(chars))

\* new Buffer(v): the UTF-8 bytes of a string, a copy of a Buffer
newBuffer(v) == IF v.type = "buffer" THEN v.bytes ELSE utf8(v.chars)

\* the character of the base64 alphabet for a six-bit value: A-Z a-z 0-9 + /
base64Char(six) ==
  IF six < 26 THEN 65 + six
  ELSE IF six < 52 THEN 97 + (six - 26)
  ELSE IF six < 62 THEN 48 + (six - 52)
  ELSE IF six = 62 THEN 43 ELSE 47

\* the padding character =
base64Pad == <<61>>

RECURSIVE toBase64(_)
\* buf.toString('base64')
toBase64(bytes) ==
  IF Len(bytes) = 0 THEN <<>>
  ELSE IF Len(bytes) = 1
  THEN <<base64Char(bytes[1] \div 4), base64Char((bytes[1] % 4) * 16)>>
         \o base64Pad \o base64Pad
  ELSE IF Len(bytes) = 2
  THEN <<base64Char(bytes[1] \div 4),
         base64Char(((bytes[1] % 4) * 16) + (bytes[2] \div 16)),
         base64Char((bytes[2] % 16) * 4)>> \o base64Pad
  ELSE <<base64Char(bytes[1] \div 4),
         base64Char(((bytes[1] % 4) * 16) + (bytes[2] \div 16)),
         base64Char(((bytes[2] % 16) * 4) + (bytes[3] \div 64)),
         base64Char(bytes[3] % 64)>>
         \o toBase64(SubSeq(bytes, 4, Len(bytes)))

needsb64_bufferOnly(elems) ==
  \E k \in 1..Len(elems) : elems[k].type = "buffer"

\* the reduce over the elements of an Array value
needsb64(elems) ==
  \E k \in 1..Len(elems) :
    elems[k].type = "buffer" \/ ~isAscii(elems[k].chars)

\* removeBinValues(key, value)
removeBinValues(key, value) ==
  IF value.type = "array"
  THEN IF needsb64(value.elems)
       THEN [key |-> key \o "-bin",
             value |-> Array([k \in 1..Len(value.elems) |->
                               String(toBase64(newBuffer(value.elems[k])))])]
       ELSE [key |-> key, value |-> value]
  ELSE IF value.type = "buffer"
  THEN [key |-> key \o "-bin", value |-> String(toBase64(value.bytes))]
  ELSE IF ~isAscii(value.chars)
  THEN [key |-> key \o "-bin",
        value |-> String(toBase64(newBuffer(value)))]
  ELSE [key |-> key, value |-> value]

(***************************************************************************)
(* Metadata calls                                                          *)
(***************************************************************************)
Keys == {"token", "x-auth", "greet"}

\* code points tried: NUL, A, DEL, the first non-ASCII one, e-acute, the euro
\* sign
CodePoints == {0, 65, 127, 128, 233, 8364}

\* "bearer abc" and "hello" with an e-acute
LongStrings ==
  {<<98, 101, 97, 114, 101, 114, 32, 97, 98, 99>>, <<104, 233, 108, 108, 111>>}

Strings ==
  {String(chars) : chars \in SeqsUpTo(CodePoints, MaxStringLen) \cup LongStrings}

Buffers == {Buffer(bytes) : bytes \in SeqsUpTo({0, 1, 2, 255}, MaxBufferLen)}

\* the elements tried in Array values
Elements ==
  {String(<<>>), String(<<65>>), String(<<97, 98>>), String(<<233>>),
   Buffer(<<>>), Buffer(<<0, 1, 2>>), Buffer(<<255>>)}

Arrays == {Array(elems) : elems \in SeqsUpTo(Elements, MaxArrayLen)}

MetaIdle ==
  /\ mKey = ""
  /\ mValue = String(<<>>)
  /\ mOp = "idle"
  /\ mRes = [key |-> "", value |-> String(<<>>)]

MetaInit ==
  /\ mKey \in Keys
  /\ mValue \in Strings \cup Buffers \cup Arrays
  /\ mOp = "idle"
  /\ mRes = [key |-> "", value |-> String(<<>>)]

\* removeBinValues(mKey, mValue)
RemoveBinValues ==
  /\ mOp = "idle"
  /\ mOp' = "removeBinValues"
  /\ mRes' = removeBinValues(mKey, mValue)
  /\ UNCHANGED <<mKey, mValue, metaRest>>

\* a caller passes the returned pair to removeBinValues once more
RemoveBinValuesAgain ==
  /\ mOp = "removeBinValues"
  /\ mOp' = "removeBinValuesAgain"
  /\ mRes' = removeBinValues(mRes.key, mRes.value)
  /\ UNCHANGED <<mKey, mValue, metaRest>>

MetaNext ==
  \/ RemoveBinValues
  \/ RemoveBinValuesAgain

InitFrame == FrameInit /\ DecIdle /\ EncIdle /\ AppIdle /\ IntervalIdle /\ MetaIdle

SpecFrame == InitFrame /\ [][FrameNext]_vars

InitDec == DecInit /\ FrameIdle /\ EncIdle /\ AppIdle /\ IntervalIdle /\ MetaIdle

SpecDec == InitDec /\ [][DecNext]_vars

InitEnc == EncInit /\ FrameIdle /\ DecIdle /\ AppIdle /\ IntervalIdle /\ MetaIdle

SpecEnc == InitEnc /\ [][EncNext]_vars

InitApp == AppInit /\ FrameIdle /\ DecIdle /\ EncIdle /\ IntervalIdle /\ MetaIdle

SpecApp == InitApp /\ [][AppNext]_vars

InitInterval == IntervalInit /\ FrameIdle /\ DecIdle /\ EncIdle /\ AppIdle /\ MetaIdle

SpecInterval == InitInterval /\ [][IntervalNext]_vars

InitMeta ==
  MetaInit /\ FrameIdle /\ DecIdle /\ EncIdle /\ AppIdle /\ IntervalIdle

SpecMeta == InitMeta /\ [][MetaNext]_vars

(***************************************************************************)
(* Properties of the frame codec.                                          *)
(***************************************************************************)
\* the value of the big-endian length field of a record
LengthField(b) == b[2] * 16777216 + b[3] * 65536 + b[4] * 256 + b[5]

\* C4: whenever encodeMessage succeeds on a payload p, the record it hands
\* to its callback has 5 + |p| bytes, byte 0 is 0, bytes 1..4 hold |p| as
\* an unsigned 32-bit big-endian number and the rest is p unchanged; the
\* empty payload gives five zero bytes.
C4_WireLayout ==
  (fOp = "encode" /\ fRes.err = "none") =>
    LET b == fRes.value
    IN  /\ Len(b) = 5 + Len(fIn)
        /\ b[1] = 0
        /\ \A i \in 2..5 : b[i] \in 0..255
        /\ LengthField(b) = Len(fIn)
        /\ b[5] = Len(fIn) % 256
        /\ \A i \in 1..Len(fIn) : b[5 + i] = fIn[i]
        /\ (fIn = <<>> => b = <<0, 0, 0, 0, 0>>)

\* C4 witness: the payload 01 02 00 has been encoded to 00 00 00 00 03 01 02 00
C4_Witness ==
  /\ fOp = "encode"
  /\ fIn = <<1, 2, 0>>
  /\ fRes.err = "none"
  /\ fRes.value = <<0, 0, 0, 0, 3, 1, 2, 0>>

\* C5: with an identity or absent marshal/unmarshal, decodeMessage applied
\* to the record encodeMessage produced for p succeeds and returns p.
C5_RoundTrip ==
  (fOp = "roundtrip" /\ fMode \in {"absent", "identity"}) =>
    (fRes.err = "none" /\ fRes.value = fIn)

\* C5 witness: a non-empty payload went through encode and decode
C5_Witness ==
  /\ fOp = "roundtrip"
  /\ fMode = "identity"
  /\ Len(fIn) = MaxFrameLen
  /\ fRes.value = fIn

\* C6: decodeMessage fails with a RangeError, without invoking unmarshal,
\* on every input of fewer than 5 bytes; on a 5-byte input whose flag and
\* length field are 0 it succeeds with the empty payload.
C6_MinimumSize ==
  fOp = "decode" =>
    /\ Len(fIn) < 5 => (fRes.err = "RangeError" /\ ~fRes.called
                          /\ fRes.value = Undefined)
    /\ fIn = <<0, 0, 0, 0, 0>> => (fRes.err = "none" /\ fRes.value = <<>>)

\* C6 witness: the five zero bytes were decoded with an unmarshal configured
C6_Witness ==
  /\ fOp = "decode"
  /\ fIn = <<0, 0, 0, 0, 0>>
  /\ fMode = "identity"
  /\ fRes.called

\* C7: on an input of at least 5 bytes with flag byte 0, decodeMessage
\* succeeds only if the bytes after the header are exactly as many as the
\* length field says; otherwise it reports an error, passes no payload and
\* does not invoke unmarshal.
C7_LengthMismatch ==
  (fOp = "decode" /\ Len(fIn) >= 5 /\ fIn[1] = 0) =>
    /\ fRes.err = "none" => Len(fIn) - 5 = LengthField(fIn)
    /\ Len(fIn) - 5 # LengthField(fIn) =>
         (fRes.err = "Error" /\ fRes.value = Undefined /\ ~fRes.called)

\* C7 witness: a record whose payload is one byte longer than its length
\* field was refused although an unmarshal was configured
C7_Witness ==
  /\ fOp = "decode"
  /\ fIn = <<0, 0, 0, 0, 1, 2, 2>>
  /\ fMode = "identity"
  /\ fRes.err = "Error"

(***************************************************************************)
(* Properties of the DecodingStream.                                       *)
(***************************************************************************)
\* b starts with a whole record: a header and the payload bytes it counts
HoldsCompleteFrame(b) ==
  /\ b # NullBuffer
  /\ Len(b) >= 5
  /\ Len(b) >= 5 + LengthField(b)

\* b is exactly one record
IsOneFrame(b) ==
  /\ b # NullBuffer
  /\ Len(b) >= 5
  /\ Len(b) = 5 + LengthField(b)

\* C1: when every byte of encode(m1) || ... || encode(mN) has been written
\* (flag 0, identity or absent unmarshal), in whatever chunks, and the
\* stream has been ended, it has emitted exactly m1..mN, in order, without
\* error.
C1_StreamingEquivalence ==
  (/\ dFlag = 0
   /\ dUnmarshal \in {"absent", "identity"}
   /\ dWire = <<>>
   /\ dEnd.called) =>
    (dOut = dMsgs /\ dError = "none" /\ dThrown = "none" /\ dState = "done")

\* C2: whenever _transform has called next(), the buffer holds no complete
\* frame: fewer than 5 bytes, or fewer than 5 + length bytes.
C2_FullDrain ==
  dState = "next" => ~HoldsCompleteFrame(dBuffer)

\* C3: a stream ended with an empty residual buffer completes without
\* emitting anything and without error; a stream ended with a non-empty
\* residual buffer that is not a complete frame, whatever its flag byte,
\* signals an error and emits nothing for those bytes.
C3_Flush ==
  dEnd.called =>
    /\ (dEnd.buffer = NullBuffer \/ dEnd.buffer = <<>>) =>
         (dState = "done" /\ dError = "none" /\ Len(dOut) = dEnd.out)
    /\ (dEnd.buffer # NullBuffer /\ dEnd.buffer # <<>>
          /\ ~IsOneFrame(dEnd.buffer)) =>
         (dError # "none" /\ Len(dOut) = dEnd.out)

\* C9: once the unmarshal callback has thrown on the payload of a complete
\* frame, in _transform or in _flush, the stream has signalled that error,
\* has emitted nothing for that frame and emits nothing more.
C9_UnmarshalFailure ==
  dFailOut >= 0 =>
    /\ dError = "CallbackError"
    /\ Len(dOut) = dFailOut
    /\ \A i \in 1..Len(dOut) : ~CallbackThrows(dUnmarshal, dOut[i])

(***************************************************************************)
(* Properties of the EncodingStream.                                       *)
(***************************************************************************)
\* the record expected on the wire for a payload of fewer than 256 bytes
ExpectedFrame(m) == <<0, 0, 0, 0, Len(m)>> \o m

RECURSIVE ExpectedWire(_)
ExpectedWire(msgs) ==
  IF msgs = <<>> THEN <<>>
  ELSE ExpectedFrame(Head(msgs)) \o ExpectedWire(Tail(msgs))

\* the written messages on which the marshal callback in force threw
MarshalFailures ==
  {i \in 1..Len(eUsed) : CallbackThrows(eUsed[i], eMsgs[i])}

\* the number of written messages before the first marshal failure
FramedCount ==
  IF MarshalFailures = {} THEN Len(eUsed)
  ELSE (CHOOSE i \in MarshalFailures : \A j \in MarshalFailures : i <= j) - 1

\* C8: the bytes pushed are the concatenation, in write order, of one frame
\* per message written before the first marshal failure; at that failure
\* the stream has signalled the error and nothing of that message or of a
\* later one is pushed.
C8_EncodingStream ==
  /\ eOut = ExpectedWire(SubSeq(eMsgs, 1, FramedCount))
  /\ MarshalFailures # {} => (eError = "CallbackError" /\ eEnded)
  /\ MarshalFailures = {} => eError = "none"

\* C8 witness: marshal threw on the second message, after one frame was
\* pushed and with a further message still to be written
C8_Witness ==
  /\ eError = "CallbackError"
  /\ Len(eUsed) = 2
  /\ eOut = ExpectedFrame(eMsgs[1])
  /\ eOut # <<0, 0, 0, 0, 0>>
  /\ eIn # <<>>

(***************************************************************************)
(* Properties of the registry.                                             *)
(***************************************************************************)
Range(f) == {f[i] : i \in DOMAIN f}

RECURSIVE declaredRoutes(_)
\* the routes of a sequence of services: by service, then by method
declaredRoutes(services) ==
  IF services = <<>> THEN <<>>
  ELSE serviceRoutes(Head(services)) \o declaredRoutes(Tail(services))

IsUnregistered(r) == r \notin aRegistered

\* C10: after any successful addService and register calls, missingRoutes()
\* is exactly the known routes without a handler, ordered by service
\* insertion and then method declaration, and isComplete() holds iff every
\* known route has a handler.
C10_RegistryCompleteness ==
  LET known == declaredRoutes(aAdded)
  IN  /\ missingRoutes = SelectSeq(known, IsUnregistered)
      /\ isComplete <=> (\A i \in 1..Len(known) : known[i] \in aRegistered)

\* C10 witness: two services were added after construction, the first
\* method of the second has a handler, and two routes are missing
C10_Witness ==
  /\ aAdded = <<basicSvc, pairSvc>>
  /\ aRegistered = {"/pair/first"}
  /\ missingRoutes = <<"/basic/noop", "/pair/second">>
  /\ ~isComplete

\* C11: register(route, handler) throws whenever the route was added by no
\* service and whenever the route already has a handler, and leaves the
\* registry as it was; no call replaces the handler of a route that has one.
C11_RegisterRefusals ==
  [][/\ (/\ aLast'.op = "register"
         /\ (aLast'.arg \notin Range(declaredRoutes(aAdded))
               \/ aLast'.arg \in aRegistered)) =>
          (aLast'.threw /\ aEntries' = aEntries)
     /\ \A i \in 1..Len(aEntries) :
          aEntries[i].handler # "undefined" =>
            (Len(aEntries') >= i /\ aEntries'[i] = aEntries[i])]_vars

\* C11 witness: a second register of a route that has a handler threw, and
\* a route of a service that was never added is still unknown
C11_Witness ==
  /\ aLast = Called("register", "/basic/noop", TRUE)
  /\ "/basic/noop" \in aRegistered
  /\ hasRoute("/basic/noop")
  /\ ~hasEntry("/pair/first")

\* C12: addService(service) throws exactly when a service of that name is
\* in the registry, given to the constructor or added by an earlier call,
\* and then changes nothing; otherwise it adds the service's routes, each
\* without a handler.
C12_AddServiceTwice ==
  [][aLast'.op = "addService" =>
       IF \E i \in 1..Len(aAdded) : aAdded[i].name = aLast'.arg
       THEN aLast'.threw /\ aEntries' = aEntries /\ aServices' = aServices
       ELSE /\ ~aLast'.threw
            /\ Len(aAdded') = Len(aAdded) + 1
            /\ aAdded'[Len(aAdded')].name = aLast'.arg
            /\ declaredRoutes(aAdded') = routesOfEntries(aEntries')
            /\ \A i \in Len(aEntries) + 1..Len(aEntries') :
                 aEntries'[i].handler = "undefined"]_vars

\* C12 witness: adding a service named like one the constructor was given
\* threw, in a registry that also holds a service added by addService
C12_Witness ==
  /\ aPreloaded = 1
  /\ Len(aAdded) = 2
  /\ aLast = Called("addService", aAdded[1].name, TRUE)
  /\ aAdded[1] = testSvc

\* C13: hasRoute(route) is true exactly for the routes for which a register
\* call has succeeded (false for unknown routes and for known routes
\* without a handler), and once true it stays true under every operation.
C13_HasRoute ==
  /\ [](\A r \in Routes : hasRoute(r) <=> r \in aRegistered)
  /\ [][\A r \in Routes : hasRoute(r) => hasRoute(r)']_vars

\* C13 witness: a route was registered and a service was added afterwards;
\* a known route without a handler and the unknown route answer false
C13_Witness ==
  /\ hasRoute("/basic/noop")
  /\ aLast.op = "addService"
  /\ ~aLast.threw
  /\ hasEntry("/test/do_reverse")
  /\ ~hasRoute("/test/do_reverse")
  /\ ~hasRoute("this-does-not-exist")

\* the callbacks the method of a route declared, "undefined" for a route of
\* no added service
DeclaredMethod(r) ==
  LET found == {m \in UNION {{[name |-> route(aAdded[i].name, aAdded[i].methods[j].name),
                               marshal |-> aAdded[i].methods[j].marshal,
                               unmarshal |-> aAdded[i].methods[j].unmarshal] :
                              j \in 1..Len(aAdded[i].methods)} :
                             i \in 1..Len(aAdded)} : m.name = r}
  IN  IF found = {}
      THEN [name |-> r, marshal |-> "undefined", unmarshal |-> "undefined"]
      ELSE CHOOSE m \in found : TRUE

\* C14: marshaller(route) and unmarshaller(route) return the callback the
\* route's method declared, and "undefined" for unknown routes and for
\* methods that declared none, whether or not the route has a handler.
C14_CodecLookup ==
  \A r \in Routes :
    /\ marshaller(r) = DeclaredMethod(r).marshal
    /\ unmarshaller(r) = DeclaredMethod(r).unmarshal

\* C14 witness: of two known routes one has a handler and one has not, and
\* each answers with the one callback its method declared
C14_Witness ==
  /\ hasRoute("/pair/first")
  /\ ~hasRoute("/pair/second")
  /\ marshaller("/pair/first") = "reverser"
  /\ unmarshaller("/pair/first") = "undefined"
  /\ marshaller("/pair/second") = "undefined"
  /\ unmarshaller("/pair/second") = "irreverser"
  /\ marshaller("this-does-not-exist") = "undefined"

(***************************************************************************)
(* Interval codec properties                                               *)
(***************************************************************************)
\* the amount and the suffix of a string that matches intervalRx
AmountOf(str) == parseInt(SubSeq(str, 1, Len(str) - 1))
SuffixOf(str) == str[Len(str)]

\* 1 for hours up to 5 for microseconds
Coarseness(sfx) ==
  CASE sfx = "H" -> 1 [] sfx = "M" -> 2 [] sfx = "S" -> 3
    [] sfx = "m" -> 4 [] sfx = "u" -> 5

\* str is amount + suffix for 1 <= amount <= 99,999,999 written without
\* leading zeros and a suffix other than n
IsEncodableInterval(str) ==
  /\ intervalRx(str)
  /\ SuffixOf(str) # "n"
  /\ AmountOf(str) # <<>>
  /\ ~BigGreater(AmountOf(str), BigFromInt(99999999))
  /\ BigToString(AmountOf(str)) = SubSeq(str, 1, Len(str) - 1)

\* C15: for every amount in 1..99,999,999 and every suffix in {H, M, S, m, u},
\* microsToInterval(intervalToMicros(amount + suffix)) succeeds and returns
\* the input string or a string in a coarser unit that decodes to the same
\* number of microseconds.
C15_IntervalRoundTrip ==
  (iOp = "decodeThenEncode" /\ IsEncodableInterval(iStr)) =>
    /\ iRes.err = "none"
    /\ intervalRx(iRes.value)
    /\ intervalToMicros(iRes.value) = intervalToMicros(iStr)
    /\ \/ iRes.value = iStr
       \/ Coarseness(SuffixOf(iRes.value)) < Coarseness(SuffixOf(iStr))

C15_Witness ==
  /\ iOp = "decodeThenEncode"
  /\ iStr = <<"3", "6", "0", "0", "S">>
  /\ iRes = Returned(<<"1", "H">>)

\* the units whose weight divides micros exactly
ExactUnits(micros) ==
  {sfx \in {"H", "M", "S", "m", "u"} : BigDivides(microsBySuffix(sfx), micros)}

CoarsestExactUnit(micros) ==
  CHOOSE sfx \in ExactUnits(micros) :
    \A other \in ExactUnits(micros) : Coarseness(sfx) <= Coarseness(other)

\* C16: when micros is an exact multiple of a unit weight with a quotient of
\* at most 99,999,999, microsToInterval returns quotient + suffix for the
\* coarsest unit that divides micros exactly.
C16_LargestExactDivisorFirst ==
  (/\ iOp = "microsToInterval"
   /\ \E sfx \in ExactUnits(iMicros) :
        ~BigGreater(BigQuotient(iMicros, microsBySuffix(sfx)),
                    BigFromInt(99999999))) =>
    iRes = Returned(
             BigToString(BigQuotient(iMicros,
                           microsBySuffix(CoarsestExactUnit(iMicros))))
               \o <<CoarsestExactUnit(iMicros)>>)

C16_Witness ==
  /\ iOp = "microsToInterval"
  /\ iMicros = BigTimes(BigFromInt(3600), <<1000, 1000>>)
  /\ iRes = Returned(<<"1", "H">>)

\* C17 as amended: microsToInterval(10^14) returns "1666666M"; the value is an
\* exact number of seconds (10^8) above the cap, and one step up, from seconds
\* to minutes with flooring, already fits.
C17_TenToThe14 ==
  (iOp = "microsToInterval" /\ iMicros = TenToThe14) =>
    iRes = Returned(<<"1", "6", "6", "6", "6", "6", "6", "M">>)

C17_Witness ==
  /\ iOp = "microsToInterval"
  /\ iMicros = TenToThe14
  /\ iRes.err = "none"

\* C17 as stated: microsToInterval(10^14) returns "27H".
C17_Original ==
  (iOp = "microsToInterval" /\ iMicros = TenToThe14) =>
    iRes = Returned(<<"2", "7", "H">>)

\* str is one to eight decimal digits followed by one suffix
IsEightDigitInterval(str) ==
  /\ Len(str) \in 2..9
  /\ \A k \in 1..Len(str) - 1 : IsDigit(str[k])
  /\ str[Len(str)] \in {"H", "M", "S", "m", "u", "n"}

\* str is nine or more decimal digits followed by one suffix
HasNineDigits(str) ==
  /\ Len(str) >= 10
  /\ \A k \in 1..Len(str) - 1 : IsDigit(str[k])
  /\ str[Len(str)] \in {"H", "M", "S", "m", "u", "n"}

\* C18: isInterval(s) is true iff s is one to eight decimal digits followed by
\* one suffix from {H, M, S, m, u, n}; a string with nine or more digits is
\* rejected by isInterval and makes intervalToMicros fail with a RangeError.
C18_IntervalGrammar ==
  /\ iOp = "isInterval" => (iRes.value <=> IsEightDigitInterval(iStr))
  /\ (iOp = "intervalToMicros" /\ HasNineDigits(iStr)) =>
       iRes.err = "RangeError"

(***************************************************************************)
(* Metadata codec properties                                               *)
(***************************************************************************)
\* every code point of chars is in 0x00..0x7F
AllAscii(chars) == \A k \in 1..Len(chars) : chars[k] \in 0..127

\* C19: for every key k and every string v whose code points are all in
\* 0x00..0x7F, the empty string included, removeBinValues(k, v) returns (k, v)
\* unchanged; and for every sequence of such strings it returns the key and
\* the sequence unchanged.
C19_AsciiIdentity ==
  mOp = "removeBinValues" =>
    /\ (mValue.type = "string" /\ AllAscii(mValue.chars)) =>
         mRes = [key |-> mKey, value |-> mValue]
    /\ (/\ mValue.type = "array"
        /\ \A k \in 1..Len(mValue.elems) :
             mValue.elems[k].type = "string" /\ AllAscii(mValue.elems[k].chars)) =>
         mRes = [key |-> mKey, value |-> mValue]

\* the six-bit value of a character of the base64 alphabet
base64Value(ch) == CHOOSE six \in 0..63 : base64Char(six) = ch

RECURSIVE fromBase64(_)
\* the bytes that a padded base64 text stands for
fromBase64(text) ==
  IF Len(text) < 4 THEN <<>>
  ELSE LET a == base64Value(text[1])
           b == base64Value(text[2])
       IN  IF text[3] = 61 THEN <<(a * 4) + (b \div 16)>>
           ELSE IF text[4] = 61
           THEN <<(a * 4) + (b \div 16),
                  ((b % 16) * 16) + (base64Value(text[3]) \div 4)>>
           ELSE <<(a * 4) + (b \div 16),
                  ((b % 16) * 16) + (base64Value(text[3]) \div 4),
                  ((base64Value(text[3]) % 4) * 64) + base64Value(text[4])>>
                  \o fromBase64(SubSeq(text, 5, Len(text)))

\* text is the padded base64 encoding of bytes
IsBase64Of(text, bytes) ==
  /\ Len(text) = 4 * ((Len(bytes) + 2) \div 3)
  /\ \A k \in 1..Len(text) :
       \/ \E six \in 0..63 : base64Char(six) = text[k]
       \/ text[k] = 61 /\ k > Len(text) - 2
  /\ fromBase64(text) = bytes

\* the bytes of an element: those of a Buffer, the UTF-8 ones of a string
BytesOf(v) == IF v.type = "buffer" THEN v.bytes ELSE utf8(v.chars)

\* C20: for a Buffer value removeBinValues returns (k + "-bin", base64(value));
\* for a sequence with an element that is a Buffer or a string with a
\* non-ASCII code point it returns (k + "-bin", the base64 encodings of every
\* element, in the same order and of the same length).
C20_BinSuffix ==
  mOp = "removeBinValues" =>
    /\ mValue.type = "buffer" =>
         /\ mRes.key = mKey \o "-bin"
         /\ mRes.value.type = "string"
         /\ IsBase64Of(mRes.value.chars, mValue.bytes)
    /\ (/\ mValue.type = "array"
        /\ \E k \in 1..Len(mValue.elems) :
             \/ mValue.elems[k].type = "buffer"
             \/ ~AllAscii(mValue.elems[k].chars)) =>
         /\ mRes.key = mKey \o "-bin"
         /\ mRes.value.type = "array"
         /\ Len(mRes.value.elems) = Len(mValue.elems)
         /\ \A k \in 1..Len(mValue.elems) :
              /\ mRes.value.elems[k].type = "string"
              /\ IsBase64Of(mRes.value.elems[k].chars, BytesOf(mValue.elems[k]))

\* removeBinValues("token", bytes 00 01 02) is ("token-bin", "AAEC")
C20_Witness ==
  /\ mOp = "removeBinValues"
  /\ mKey = "token"
  /\ mValue = Buffer(<<0, 1, 2>>)
  /\ mRes = [key |-> "token-bin", value |-> String(<<65, 65, 69, 67>>)]

\* a sequence with a Buffer after an ASCII string
C20_WitnessArray ==
  /\ mOp = "removeBinValues"
  /\ mValue = Array(<<String(<<97, 98>>), Buffer(<<255>>)>>)
  /\ mRes.value = Array(<<String(<<89, 87, 73, 61>>), String(<<47, 119, 61, 61>>)>>)

\* the value is a non-empty Buffer or a string with a non-ASCII code point
IsBinaryValue(v) ==
  \/ v.type = "buffer" /\ Len(v.bytes) > 0
  \/ v.type = "string" /\ ~AllAscii(v.chars)

\* C21 as amended: for a non-empty Buffer or a non-ASCII string v, applying
\* removeBinValues to the pair (k + "-bin", base64 text) returned by a first
\* application returns that pair unchanged: the key gets no second suffix,
\* because the base64 text is a non-empty ASCII string and the key is never
\* inspected.
C21_RerunIsIdentity ==
  (mOp = "removeBinValuesAgain" /\ IsBinaryValue(mValue)) =>
    /\ mRes.key = mKey \o "-bin"
    /\ mRes.value.type = "string"
    /\ IsBase64Of(mRes.value.chars, BytesOf(mValue))

C21_Witness ==
  /\ mOp = "removeBinValuesAgain"
  /\ mKey = "token"
  /\ mValue = Buffer(<<255>>)
  /\ mRes = [key |-> "token-bin", value |-> String(<<47, 119, 61, 61>>)]

\* C21 as stated: for a Buffer or non-ASCII value the second application
\* returns a key ending in "-bin-bin".
C21_Original ==
  (/\ mOp = "removeBinValuesAgain"
   /\ (mValue.type = "buffer"
         \/ (mValue.type = "string" /\ ~AllAscii(mValue.chars)))) =>
    mRes.key = mKey \o "-bin-bin"

(***************************************************************************)
(* Decoder prefix safety                                                   *)
(***************************************************************************)
\* the frames written are well formed and none makes unmarshal fail
WellFormedRun ==
  /\ dFlag = 0
  /\ \A i \in 1..Len(dMsgs) : ~CallbackThrows(dUnmarshal, dMsgs[i])

\* the number of bytes the stream has received so far
BytesReceived == Len(PeerWire(dFlag, dMsgs)) - Len(dWire)

\* C22: in every run fed any chunking of well-formed frames (flag 0, no
\* unmarshal failure), the messages emitted so far are a prefix of the
\* payloads of the frames written, in order, none duplicated, skipped or
\* altered, and none is emitted before all 5 + length bytes of its frame
\* have been received.
C22_PrefixSafety ==
  WellFormedRun =>
    /\ Len(dOut) <= Len(dMsgs)
    /\ \A i \in 1..Len(dOut) : dOut[i] = dMsgs[i]
    /\ BytesReceived >= Len(PeerWire(dFlag, dOut))

\* two of three distinct messages are out while bytes of the third are
\* still to come
C22_Witness ==
  /\ WellFormedRun
  /\ dMsgs = <<(<<0, 2>>), <<>>, (<<0, 2>>)>>
  /\ dOut = <<(<<0, 2>>), <<>>>>
  /\ dWire # <<>>
  /\ dBuffer # NullBuffer /\ Len(dBuffer) > 0

(***************************************************************************)
(* Interval encoding against the deadline                                  *)
(***************************************************************************)
\* some unit divides micros exactly with a quotient of at most 99,999,999
HasExactEncoding(micros) ==
  \E sfx \in ExactUnits(micros) :
    ~BigGreater(BigQuotient(micros, microsBySuffix(sfx)), BigFromInt(99999999))

\* C23: whenever microsToInterval returns a string for a non-negative integer
\* micros, the string has an amount of at most 99,999,999 and a suffix in
\* {H, M, S, m, u}, and intervalToMicros of it is at most micros, with
\* equality exactly when some unit divides micros with a quotient of at most
\* 99,999,999.
C23_NeverOverstates ==
  (iOp = "microsToInterval" /\ iRes.err = "none") =>
    /\ intervalRx(iRes.value)
    /\ SuffixOf(iRes.value) \in {"H", "M", "S", "m", "u"}
    /\ ~BigGreater(AmountOf(iRes.value), BigFromInt(99999999))
    /\ ~BigGreater(intervalToMicros(iRes.value).value, iMicros)
    /\ (intervalToMicros(iRes.value).value = iMicros) <=> HasExactEncoding(iMicros)

\* 10^14 + 1 microseconds are encoded as 1666666 minutes, which is less
C23_Witness ==
  /\ iOp = "microsToInterval"
  /\ iMicros = BigMulAdd(TenToThe14, 1, 1)
  /\ ~HasExactEncoding(iMicros)
  /\ iRes = Returned(<<"1", "6", "6", "6", "6", "6", "6", "M">>)
  /\ BigGreater(iMicros, intervalToMicros(iRes.value).value)

=============================================================================
